---- MODULE Spec2Model ----
(***************************************************************************)
(* ARM AI: the configuration registry (config.py) and the Firestore        *)
(* state-logging client (firebase_client.py).                              *)
(*                                                                         *)
(* Three specifications share the variables below:                         *)
(*   ConfigSpec  the import of config.py, later changes of os.environ and  *)
(*               ModelConfig constructions;                                *)
(*   Spec        threads that construct FirebaseClient() and call          *)
(*               log_risk_event, interleaved statement by statement;       *)
(*   SeqSpec     the same client code, one call at a time.                 *)
(***************************************************************************)
EXTENDS Integers, FiniteSets, Sequences, TLC

VARIABLES
    \* ---- config.py ----
    environ,        \* os.environ restricted to the three variables read
    dotenv,         \* the content of the .env file load_dotenv() reads
    cpc,            \* position of the import of config.py
    fcDefaults,     \* FirebaseConfig's class-level field defaults (lines 26-27)
    config,         \* the attributes of Config / the global config (line 70)
    getenvCalls,    \* per variable: how many os.getenv calls have read it
    envAtResolve,   \* per variable: os.environ's entry when os.getenv read it
    envChanges,     \* number of later changes of os.environ
    mcBuilt,        \* a ModelConfig(ENSEMBLE_WEIGHTS=...) call has been made
    mcArg,          \* argument of the last such call
    mcObj,          \* the ModelConfig object that call produced
    \* ---- firebase_client.py ----
    _instance,      \* FirebaseClient._instance (class attribute), Null for None
    instances,      \* the FirebaseClient objects allocated so far
    _initialized,   \* per object: the value its _initialized attribute resolves to
    db,             \* per object: its db attribute, Null while it has none
    _apps,          \* firebase_admin._apps: the names of the registered apps
    initAppDup,     \* ghost: initialize_app was called while an app was registered
    pc,             \* per thread: the line it is at, "idle" between calls
    self,           \* per thread: the object __new__ returned to it
    held,           \* per thread: the client its last successful construction returned
    outcome,        \* per thread: how its last call ended
    retval,         \* per thread: the value its last log_risk_event returned
    calls,          \* number of calls the threads have started
    op,             \* per thread: the operation of its last call
    event_data,     \* per thread: the caller's mapping passed to log_risk_event
    payload,        \* per thread: the mapping handed to doc_ref.set
    origEvent,      \* ghost: the caller's mapping as it was at the call
    callClock,      \* ghost: the clock when log_risk_event was entered
    doc_ref,        \* per thread: the identifier document() generated
    attempts,       \* ghost: write attempts of the current log_risk_event call
    writeFailed,    \* ghost: the current call's write raised
    risk_events,    \* the documents of the risk-events collection
    nextDocId,      \* number of identifiers document() has generated
    clock           \* the UTC clock

configVars == <<environ, dotenv, cpc, fcDefaults, config, getenvCalls,
                envAtResolve, envChanges, mcBuilt, mcArg, mcObj>>
clientVars == <<_instance, instances, _initialized, db, _apps, initAppDup,
                pc, self, held, outcome, calls, op>>
logVars == <<retval, event_data, payload, origEvent, callClock, doc_ref,
             attempts, writeFailed, risk_events, nextDocId, clock>>
vars == <<configVars, clientVars, logVars>>

\* Python's None, and the absence of a key in os.environ / the .env file.
NoneVal == "None"
Unset == "<unset>"
\* None where the other values are object or document identifiers.
Null == 0

(***************************************************************************)
(* Bounds of the model.                                                    *)
(***************************************************************************)
MaxEnvChanges == 2
MaxCalls == 4
MaxClock == 1

(***************************************************************************)
(* config.py                                                               *)
(***************************************************************************)
EnvVars == {"FIREBASE_CREDENTIALS_PATH", "FIREBASE_PROJECT_ID", "LOG_LEVEL"}
EnvValues == {"", "custom"}
DotenvValues == {"fromfile"}

\* The fallback literals of the three os.getenv calls.
Default(var) ==
    CASE var = "FIREBASE_CREDENTIALS_PATH" -> "./firebase-credentials.json"
      [] var = "FIREBASE_PROJECT_ID" -> "arm-ai-system"
      [] var = "LOG_LEVEL" -> "INFO"

\* A lookup that drops the fallback: os.getenv(var) yields None when unset.
getenv_nodefault(env, var, default) ==
    IF env[var] = Unset THEN NoneVal ELSE env[var]

\* os.getenv(var, default)
getenv(env, var, default) ==
    IF env[var] = Unset THEN default ELSE env[var]

\* load_dotenv(): entries of the .env file are added to os.environ, an
\* entry already present in os.environ is kept (override=False).
load_dotenv(env, file) ==
    [v \in EnvVars |-> IF env[v] = Unset THEN file[v] ELSE env[v]]

\* Ensemble weights are kept in tenths (3 stands for 0.3).
DefaultWeights ==
    [m \in {"isolation_forest", "gradient_boosting", "lstm"} |->
        IF m = "gradient_boosting" THEN 4 ELSE 3]

EmptyMapping == [m \in {} |-> 0]

\* ENSEMBLE_WEIGHTS = None, the field's declared default (line 37).
NoneMapping == [m \in {NoneVal} |-> 0]

\* The ENSEMBLE_WEIGHTS arguments a caller passes: none, an empty mapping,
\* a one-entry mapping, a mapping over the default names with other weights.
WeightArgs ==
    {NoneMapping, EmptyMapping, [m \in {"lstm"} |-> 10],
     [m \in {"isolation_forest", "gradient_boosting", "lstm"} |->
        IF m = "lstm" THEN 2 ELSE 4]}

\* A defaulting on falsiness: `if not self.ENSEMBLE_WEIGHTS`.
post_init_falsy(w) ==
    IF w = NoneMapping \/ w = EmptyMapping THEN DefaultWeights ELSE w

\* ModelConfig.__post_init__: the value ENSEMBLE_WEIGHTS has afterwards.
post_init(w) ==
    IF w = NoneMapping THEN DefaultWeights ELSE w

\* ModelConfig(ENSEMBLE_WEIGHTS=w): the dataclass __init__ then __post_init__.
ModelConfig(w) ==
    [TRAINING_INTERVAL_HOURS |-> 24,
     PREDICTION_INTERVAL_MINUTES |-> 5,
     ENSEMBLE_WEIGHTS |-> post_init(w),
     FEATURE_WINDOW |-> 50]

\* FirebaseConfig(): every field takes its class-level default.
FirebaseConfig(defaults) ==
    [CREDENTIALS_PATH |-> defaults.CREDENTIALS_PATH,
     PROJECT_ID |-> defaults.PROJECT_ID,
     RISK_EVENTS_COLLECTION |-> "risk_events",
     PORTFOLIO_STATE_COLLECTION |-> "portfolio_state",
     MODEL_STATE_COLLECTION |-> "model_state"]

NoConfig ==
    [FIREBASE |-> NoneVal, MODELS |-> NoneVal, LOG_LEVEL |-> NoneVal]

ConfigInit ==
    /\ environ \in [EnvVars -> EnvValues \cup {Unset}]
    /\ dotenv \in [EnvVars -> DotenvValues \cup {Unset}]
    /\ cpc = "load_dotenv"
    /\ fcDefaults = NoneVal
    /\ config = NoConfig
    /\ getenvCalls = [v \in EnvVars |-> 0]
    /\ envAtResolve = [v \in EnvVars |-> NoneVal]
    /\ envChanges = 0
    /\ mcBuilt = FALSE
    /\ mcArg = NoneMapping
    /\ mcObj = NoneVal

\* line 10
LoadDotenv ==
    /\ cpc = "load_dotenv"
    /\ environ' = load_dotenv(environ, dotenv)
    /\ cpc' = "class_FirebaseConfig"
    /\ UNCHANGED <<dotenv, fcDefaults, config, getenvCalls, envAtResolve,
                   envChanges, mcBuilt, mcArg, mcObj>>
    /\ UNCHANGED <<clientVars, logVars>>

\* lines 23-30: the class body evaluates the two os.getenv defaults.
ClassFirebaseConfig ==
    /\ cpc = "class_FirebaseConfig"
    /\ fcDefaults' =
         [CREDENTIALS_PATH |->
             getenv(environ, "FIREBASE_CREDENTIALS_PATH",
                    Default("FIREBASE_CREDENTIALS_PATH")),
          PROJECT_ID |->
             getenv(environ, "FIREBASE_PROJECT_ID",
                    Default("FIREBASE_PROJECT_ID"))]
    /\ getenvCalls' =
         [v \in EnvVars |->
            IF v = "LOG_LEVEL" THEN getenvCalls[v] ELSE getenvCalls[v] + 1]
    /\ envAtResolve' =
         [v \in EnvVars |->
            IF v = "LOG_LEVEL" THEN envAtResolve[v] ELSE environ[v]]
    /\ cpc' = "class_Config"
    /\ UNCHANGED <<environ, dotenv, config, envChanges, mcBuilt, mcArg, mcObj>>
    /\ UNCHANGED <<clientVars, logVars>>

\* lines 48-67: the class body builds the nested groups and reads LOG_LEVEL.
ClassConfig ==
    /\ cpc = "class_Config"
    /\ config' =
         [FIREBASE |-> FirebaseConfig(fcDefaults),
          MODELS |-> ModelConfig(NoneMapping),
          LOG_LEVEL |-> getenv(environ, "LOG_LEVEL", Default("LOG_LEVEL"))]
    /\ getenvCalls' = [getenvCalls EXCEPT !["LOG_LEVEL"] = @ + 1]
    /\ envAtResolve' = [envAtResolve EXCEPT !["LOG_LEVEL"] = environ["LOG_LEVEL"]]
    /\ cpc' = "instantiate"
    /\ UNCHANGED <<environ, dotenv, fcDefaults, envChanges, mcBuilt, mcArg, mcObj>>
    /\ UNCHANGED <<clientVars, logVars>>

\* line 70: config = Config(); the instance reads the class attributes.
Instantiate ==
    /\ cpc = "instantiate"
    /\ cpc' = "done"
    /\ UNCHANGED <<environ, dotenv, fcDefaults, config, getenvCalls,
                   envAtResolve, envChanges, mcBuilt, mcArg, mcObj>>
    /\ UNCHANGED <<clientVars, logVars>>

\* Other code of the process sets or deletes a variable of os.environ.
ChangeEnviron(var, val) ==
    /\ envChanges < MaxEnvChanges
    /\ environ[var] # val
    /\ environ' = [environ EXCEPT ![var] = val]
    /\ envChanges' = envChanges + 1
    /\ UNCHANGED <<dotenv, cpc, fcDefaults, config, getenvCalls, envAtResolve,
                   mcBuilt, mcArg, mcObj>>
    /\ UNCHANGED <<clientVars, logVars>>

\* A component constructs its own ModelConfig once config.py is imported.
NewModelConfig(w) ==
    /\ cpc = "done"
    /\ mcBuilt' = TRUE
    /\ mcArg' = w
    /\ mcObj' = ModelConfig(w)
    /\ UNCHANGED <<environ, dotenv, cpc, fcDefaults, config, getenvCalls,
                   envAtResolve, envChanges>>
    /\ UNCHANGED <<clientVars, logVars>>


(***************************************************************************)
(* firebase_client.py                                                      *)
(***************************************************************************)
Threads == {"T1", "T2"}
\* A thread allocates at most one object: after its line 27, _instance is
\* never None again.
Objects == 1 .. Cardinality(Threads)
DefaultApp == "[DEFAULT]"
\* The Firestore client firestore.client() returns for the default app.
FirestoreClient == 1

\* The lines of _initialize_firebase.
InitLines == {"l38", "l39", "l40", "l41", "l48", "l49", "l52"}

\* The caller's mappings: the spec's example, and one without 'type' that
\* already carries 'timestamp' and 'processed'.
Events ==
    {[k \in {"type", "severity"} |->
        IF k = "type" THEN "drawdown_breach" ELSE "high"],
     [k \in {"severity", "timestamp", "processed"} |->
        CASE k = "severity" -> "low"
          [] k = "timestamp" -> -1
          [] k = "processed" -> TRUE]}

\* dict item assignment: d[k] = v
SetItem(d, k, v) ==
    [x \in DOMAIN d \cup {k} |-> IF x = k THEN v ELSE d[x]]

\* A stamping that keeps what the caller supplied (dict.setdefault).
StampKeep(d, now) ==
    LET d1 == IF "timestamp" \in DOMAIN d THEN d ELSE SetItem(d, "timestamp", now)
    IN  IF "processed" \in DOMAIN d1 THEN d1 ELSE SetItem(d1, "processed", FALSE)

\* lines 66-67: the two item assignments on event_data.
Stamp(d, now) ==
    SetItem(SetItem(d, "timestamp", now), "processed", FALSE)

\* An enrichment of a copy: the caller's mapping is left as it was.
EnrichCopy(d, now) ==
    [caller |-> d, written |-> Stamp(d, now)]

\* lines 66-70: event_data is mutated in place and that same object is
\* what doc_ref.set receives.
Enrich(d, now) ==
    [caller |-> Stamp(d, now), written |-> Stamp(d, now)]

\* firebase_admin.initialize_app: raises ValueError when the default app is
\* already registered, otherwise registers it unless building the app raises.
initialize_app(apps, ok) ==
    IF DefaultApp \in apps THEN [apps |-> apps, raised |-> TRUE]
    ELSE IF ok THEN [apps |-> apps \cup {DefaultApp}, raised |-> FALSE]
    ELSE [apps |-> apps, raised |-> TRUE]

\* The state config.py leaves when no variable is set and there is no .env.
ImportedConfig ==
    /\ environ = [v \in EnvVars |-> Unset]
    /\ dotenv = [v \in EnvVars |-> Unset]
    /\ cpc = "done"
    /\ fcDefaults = [CREDENTIALS_PATH |-> Default("FIREBASE_CREDENTIALS_PATH"),
                     PROJECT_ID |-> Default("FIREBASE_PROJECT_ID")]
    /\ config = [FIREBASE |-> FirebaseConfig(fcDefaults),
                 MODELS |-> ModelConfig(NoneMapping),
                 LOG_LEVEL |-> Default("LOG_LEVEL")]
    /\ getenvCalls = [v \in EnvVars |-> 1]
    /\ envAtResolve = [v \in EnvVars |-> Unset]
    /\ envChanges = 0
    /\ mcBuilt = FALSE
    /\ mcArg = NoneMapping
    /\ mcObj = NoneVal

\* lines 22-23 and the start of the process: no object, no app, no document.
ClientInit ==
    /\ _instance = Null
    /\ instances = {}
    /\ _initialized = [o \in Objects |-> FALSE]
    /\ db = [o \in Objects |-> Null]
    /\ _apps = {}
    /\ initAppDup = FALSE
    /\ pc = [t \in Threads |-> "idle"]
    /\ self = [t \in Threads |-> Null]
    /\ held = [t \in Threads |-> Null]
    /\ outcome = [t \in Threads |-> "none"]
    /\ calls = 0
    /\ op = [t \in Threads |-> "none"]
    /\ retval = [t \in Threads |-> Null]
    /\ event_data = [t \in Threads |-> [k \in {} |-> 0]]
    /\ payload = [t \in Threads |-> [k \in {} |-> 0]]
    /\ origEvent = [t \in Threads |-> [k \in {} |-> 0]]
    /\ callClock = [t \in Threads |-> 0]
    /\ doc_ref = [t \in Threads |-> Null]
    /\ attempts = [t \in Threads |-> 0]
    /\ writeFailed = [t \in Threads |-> FALSE]
    /\ risk_events = {}
    /\ nextDocId = 0
    /\ clock = 0

\* A thread evaluates FirebaseClient().
Call(t) ==
    /\ pc[t] = "idle"
    /\ calls < MaxCalls
    /\ calls' = calls + 1
    /\ pc' = [pc EXCEPT ![t] = "l26"]
    /\ op' = [op EXCEPT ![t] = "construct"]
    /\ outcome' = [outcome EXCEPT ![t] = "none"]
    /\ self' = [self EXCEPT ![t] = Null]
    /\ UNCHANGED <<_instance, instances, _initialized, db, _apps, initAppDup, held>>
    /\ UNCHANGED <<configVars, logVars>>

\* FirebaseClient() when no other call is in progress.
SeqCall(t) ==
    /\ \A u \in Threads : pc[u] = "idle"
    /\ Call(t)

\* line 26: if cls._instance is None
New_check(t) ==
    /\ pc[t] = "l26"
    /\ pc' = [pc EXCEPT ![t] = IF _instance = Null THEN "l27" ELSE "l28"]
    /\ UNCHANGED <<_instance, instances, _initialized, db, _apps, initAppDup,
                   self, held, outcome, calls, op>>
    /\ UNCHANGED <<configVars, logVars>>

\* line 27: cls._instance = super().__new__(cls)
New_alloc(t) ==
    /\ pc[t] = "l27"
    /\ LET o == Cardinality(instances) + 1 IN
        /\ instances' = instances \cup {o}
        /\ _instance' = o
    /\ pc' = [pc EXCEPT ![t] = "l28"]
    /\ UNCHANGED <<_initialized, db, _apps, initAppDup, self, held, outcome, calls, op>>
    /\ UNCHANGED <<configVars, logVars>>

\* line 28: return cls._instance; __init__ then runs on the object returned.
New_return(t) ==
    /\ pc[t] = "l28"
    /\ self' = [self EXCEPT ![t] = _instance]
    /\ pc' = [pc EXCEPT ![t] = "l31"]
    /\ UNCHANGED <<_instance, instances, _initialized, db, _apps, initAppDup,
                   held, outcome, calls, op>>
    /\ UNCHANGED <<configVars, logVars>>

\* An __init__ without the guard: it initializes on every construction.
Init_check_always(t) ==
    /\ pc[t] = "l31"
    /\ pc' = [pc EXCEPT ![t] = "l38"]
    /\ UNCHANGED <<_instance, instances, _initialized, db, _apps, initAppDup,
                   self, held, outcome, calls, op>>
    /\ UNCHANGED <<configVars, logVars>>

\* line 31: if not self._initialized; when it is set, __init__ returns and
\* FirebaseClient() yields the object.
Init_check(t) ==
    /\ pc[t] = "l31"
    /\ IF ~_initialized[self[t]]
       THEN /\ pc' = [pc EXCEPT ![t] = "l38"]
            /\ UNCHANGED <<held, outcome>>
       ELSE /\ pc' = [pc EXCEPT ![t] = "idle"]
            /\ held' = [held EXCEPT ![t] = self[t]]
            /\ outcome' = [outcome EXCEPT ![t] = "returned"]
    /\ UNCHANGED <<_instance, instances, _initialized, db, _apps, initAppDup,
                   self, calls, op>>
    /\ UNCHANGED <<configVars, logVars>>

\* An _initialize_firebase without the guard on firebase_admin._apps.
Apps_check_skip(t) ==
    /\ pc[t] = "l38"
    /\ pc' = [pc EXCEPT ![t] = "l39"]
    /\ UNCHANGED <<_instance, instances, _initialized, db, _apps, initAppDup,
                   self, held, outcome, calls, op>>
    /\ UNCHANGED <<configVars, logVars>>

\* line 38: if not firebase_admin._apps
Apps_check(t) ==
    /\ pc[t] = "l38"
    /\ pc' = [pc EXCEPT ![t] = IF _apps = {} THEN "l39" ELSE "l49"]
    /\ UNCHANGED <<_instance, instances, _initialized, db, _apps, initAppDup,
                   self, held, outcome, calls, op>>
    /\ UNCHANGED <<configVars, logVars>>

\* line 39: if os.path.exists(config.FIREBASE.CREDENTIALS_PATH)
Exists_check(t) ==
    /\ pc[t] = "l39"
    /\ \E exists \in BOOLEAN :
         pc' = [pc EXCEPT ![t] = IF exists THEN "l40" ELSE "l48"]
    /\ UNCHANGED <<_instance, instances, _initialized, db, _apps, initAppDup,
                   self, held, outcome, calls, op>>
    /\ UNCHANGED <<configVars, logVars>>

\* line 40: credentials.Certificate(path), which raises on an unusable file.
Certificate(t) ==
    /\ pc[t] = "l40"
    /\ \E ok \in BOOLEAN :
         pc' = [pc EXCEPT ![t] = IF ok THEN "l41" ELSE "l52"]
    /\ UNCHANGED <<_instance, instances, _initialized, db, _apps, initAppDup,
                   self, held, outcome, calls, op>>
    /\ UNCHANGED <<configVars, logVars>>

\* lines 41-44 and 46-48: firebase_admin.initialize_app, with or without
\* the credential.
Initialize_app(t) ==
    /\ pc[t] \in {"l41", "l48"}
    /\ \E ok \in BOOLEAN :
         LET r == initialize_app(_apps, ok) IN
            /\ _apps' = r.apps
            /\ pc' = [pc EXCEPT ![t] = IF r.raised THEN "l52" ELSE "l49"]
    /\ initAppDup' = (initAppDup \/ _apps # {})
    /\ UNCHANGED <<_instance, instances, _initialized, db, self, held, outcome, calls, op>>
    /\ UNCHANGED <<configVars, logVars>>

\* lines 49-50: self.db = firestore.client()
Firestore_client(t) ==
    /\ pc[t] = "l49"
    /\ \E ok \in BOOLEAN :
         IF ok
         THEN /\ db' = [db EXCEPT ![self[t]] = FirestoreClient]
              /\ pc' = [pc EXCEPT ![t] = "l33"]
         ELSE /\ pc' = [pc EXCEPT ![t] = "l52"]
              /\ UNCHANGED db
    /\ UNCHANGED <<_instance, instances, _initialized, _apps, initAppDup,
                   self, held, outcome, calls, op>>
    /\ UNCHANGED <<configVars, logVars>>

\* A handler that logs and does not re-raise: __init__ goes on to line 33.
Init_except_swallow(t) ==
    /\ pc[t] = "l52"
    /\ pc' = [pc EXCEPT ![t] = "l33"]
    /\ UNCHANGED <<_instance, instances, _initialized, db, _apps, initAppDup,
                   self, held, outcome, calls, op>>
    /\ UNCHANGED <<configVars, logVars>>

\* lines 51-53: logger.error, then raise; the exception leaves __init__
\* before line 33 and FirebaseClient() raises to its caller.
Init_except(t) ==
    /\ pc[t] = "l52"
    /\ pc' = [pc EXCEPT ![t] = "idle"]
    /\ outcome' = [outcome EXCEPT ![t] = "raised"]
    /\ UNCHANGED <<_instance, instances, _initialized, db, _apps, initAppDup,
                   self, held, calls, op>>
    /\ UNCHANGED <<configVars, logVars>>

\* line 33: self._initialized = True; FirebaseClient() yields the object.
Set_initialized(t) ==
    /\ pc[t] = "l33"
    /\ _initialized' = [_initialized EXCEPT ![self[t]] = TRUE]
    /\ pc' = [pc EXCEPT ![t] = "idle"]
    /\ held' = [held EXCEPT ![t] = self[t]]
    /\ outcome' = [outcome EXCEPT ![t] = "returned"]
    /\ UNCHANGED <<_instance, instances, db, _apps, initAppDup, self, calls, op>>
    /\ UNCHANGED <<configVars, logVars>>

\* A holder of the client calls log_risk_event(e) with its own mapping e.
Log_call(t, e) ==
    /\ pc[t] = "idle"
    /\ held[t] # Null
    /\ calls < MaxCalls
    /\ calls' = calls + 1
    /\ pc' = [pc EXCEPT ![t] = "l66"]
    /\ op' = [op EXCEPT ![t] = "log"]
    /\ outcome' = [outcome EXCEPT ![t] = "none"]
    /\ retval' = [retval EXCEPT ![t] = Null]
    /\ event_data' = [event_data EXCEPT ![t] = e]
    /\ origEvent' = [origEvent EXCEPT ![t] = e]
    /\ payload' = [payload EXCEPT ![t] = EmptyMapping]
    /\ callClock' = [callClock EXCEPT ![t] = clock]
    /\ doc_ref' = [doc_ref EXCEPT ![t] = Null]
    /\ attempts' = [attempts EXCEPT ![t] = 0]
    /\ writeFailed' = [writeFailed EXCEPT ![t] = FALSE]
    /\ UNCHANGED <<risk_events, nextDocId, clock>>
    /\ UNCHANGED <<_instance, instances, _initialized, db, _apps, initAppDup,
                   self, held>>
    /\ UNCHANGED configVars

\* lines 66-69: stamp event_data, then self.db.collection(...).document()
\* generates a fresh identifier without touching the store; an object with
\* no db attribute raises AttributeError into the handler.
Log_stamp(t) ==
    /\ pc[t] = "l66"
    /\ LET r == Enrich(event_data[t], clock) IN
        /\ event_data' = [event_data EXCEPT ![t] = r.caller]
        /\ payload' = [payload EXCEPT ![t] = r.written]
    /\ IF db[held[t]] = Null
       THEN /\ pc' = [pc EXCEPT ![t] = "l73"]
            /\ UNCHANGED <<doc_ref, nextDocId>>
       ELSE /\ pc' = [pc EXCEPT ![t] = "l70"]
            /\ doc_ref' = [doc_ref EXCEPT ![t] = nextDocId + 1]
            /\ nextDocId' = nextDocId + 1
    /\ UNCHANGED <<retval, origEvent, callClock, attempts, writeFailed,
                   risk_events, clock>>
    /\ UNCHANGED <<configVars, _instance, instances, _initialized, db, _apps,
                   initAppDup, self, held, outcome, calls, op>>

\* line 70: doc_ref.set(event_data) creates the document, or raises and
\* creates nothing.
Log_set(t) ==
    /\ pc[t] = "l70"
    /\ attempts' = [attempts EXCEPT ![t] = @ + 1]
    /\ \E ok \in BOOLEAN :
         IF ok
         THEN /\ risk_events' =
                    risk_events \cup {[id |-> doc_ref[t], fields |-> payload[t]]}
              /\ pc' = [pc EXCEPT ![t] = "l71"]
              /\ UNCHANGED writeFailed
         ELSE /\ writeFailed' = [writeFailed EXCEPT ![t] = TRUE]
              /\ pc' = [pc EXCEPT ![t] = "l73"]
              /\ UNCHANGED risk_events
    /\ UNCHANGED <<retval, event_data, payload, origEvent, callClock, doc_ref,
                   nextDocId, clock>>
    /\ UNCHANGED <<configVars, _instance, instances, _initialized, db, _apps,
                   initAppDup, self, held, outcome, calls, op>>

\* lines 71-72: logger.info(...), then return doc_ref.id
Log_return(t) ==
    /\ pc[t] = "l71"
    /\ retval' = [retval EXCEPT ![t] = doc_ref[t]]
    /\ outcome' = [outcome EXCEPT ![t] = "returned"]
    /\ pc' = [pc EXCEPT ![t] = "idle"]
    /\ UNCHANGED <<event_data, payload, origEvent, callClock, doc_ref, attempts,
                   writeFailed, risk_events, nextDocId, clock>>
    /\ UNCHANGED <<configVars, _instance, instances, _initialized, db, _apps,
                   initAppDup, self, held, calls, op>>

\* A handler that tries the write again.
Log_except_retry(t) ==
    /\ pc[t] = "l73"
    /\ pc' = [pc EXCEPT ![t] = IF db[held[t]] = Null THEN "idle" ELSE "l70"]
    /\ UNCHANGED <<retval, event_data, payload, origEvent, callClock, doc_ref,
                   attempts, writeFailed, risk_events, nextDocId, clock>>
    /\ UNCHANGED <<configVars, _instance, instances, _initialized, db, _apps,
                   initAppDup, self, held, outcome, calls, op>>

\* lines 73-74: the handler is the bare expression `logger.error`, the last
\* text of the file: it evaluates the attribute, neither logs nor re-raises,
\* and the function falls off its end, returning None.
Log_except(t) ==
    /\ pc[t] = "l73"
    /\ retval' = [retval EXCEPT ![t] = Null]
    /\ outcome' = [outcome EXCEPT ![t] = "returned"]
    /\ pc' = [pc EXCEPT ![t] = "idle"]
    /\ UNCHANGED <<event_data, payload, origEvent, callClock, doc_ref, attempts,
                   writeFailed, risk_events, nextDocId, clock>>
    /\ UNCHANGED <<configVars, _instance, instances, _initialized, db, _apps,
                   initAppDup, self, held, calls, op>>

\* The UTC clock advances.
Tick ==
    /\ clock < MaxClock
    /\ clock' = clock + 1
    /\ UNCHANGED <<retval, event_data, payload, origEvent, callClock, doc_ref,
                   attempts, writeFailed, risk_events, nextDocId>>
    /\ UNCHANGED <<configVars, clientVars>>

Construct(t) ==
    \/ New_check(t)
    \/ New_alloc(t)
    \/ New_return(t)
    \/ Init_check(t)
    \/ Apps_check(t)
    \/ Exists_check(t)
    \/ Certificate(t)
    \/ Initialize_app(t)
    \/ Firestore_client(t)
    \/ Init_except(t)
    \/ Set_initialized(t)

Next ==
    \/ \E t \in Threads : Call(t)
    \/ \E t \in Threads : Construct(t)
    \/ \E t \in Threads, e \in Events : Log_call(t, e)
    \/ \E t \in Threads : Log_stamp(t)
    \/ \E t \in Threads : Log_set(t)
    \/ \E t \in Threads : Log_return(t)
    \/ \E t \in Threads : Log_except(t)
    \/ Tick

SeqNext ==
    \/ \E t \in Threads : SeqCall(t)
    \/ \E t \in Threads : Construct(t)

Init == ImportedConfig /\ ClientInit

Spec == Init /\ [][Next]_vars

SeqSpec == Init /\ [][SeqNext]_vars

ConfigNext ==
    \/ LoadDotenv
    \/ ClassFirebaseConfig
    \/ ClassConfig
    \/ Instantiate
    \/ \E var \in EnvVars, val \in EnvValues \cup {Unset} : ChangeEnviron(var, val)
    \/ \E w \in WeightArgs : NewModelConfig(w)

\* The process starts with config.py not yet imported and no client.
ConfigSpecInit == ConfigInit /\ ClientInit

ConfigSpec == ConfigSpecInit /\ [][ConfigNext]_vars

(***************************************************************************)
(* The claims.                                                             *)
(***************************************************************************)
InjectedKeys == {"timestamp", "processed"}

\* thread t's last call was a log_risk_event that has ended
LogEnded(t) == op[t] = "log" /\ pc[t] = "idle"

\* C1: whenever the store write fails during log_risk_event, the call raises
\* a write error to its caller: it neither returns an identifier nor
\* completes normally with any value.
C1_WriteFailureRaises ==
    \A t \in Threads :
        (LogEnded(t) /\ writeFailed[t]) =>
            (outcome[t] = "raised" /\ retval[t] = Null)

\* C2: when threads request FirebaseClient() concurrently before any
\* construction has finished, exactly one instance is created and only one
\* of them performs _initialize_firebase.
C2_OneInstanceOneInitializer ==
    /\ Cardinality(instances) <= 1
    /\ Cardinality({t \in Threads : pc[t] \in InitLines}) <= 1

\* C3: in a sequential sequence of constructions every call that returns
\* yields the same instance, and once an object is initialized (Ready) no
\* construction runs _initialize_firebase on it or assigns its db again.
C3_SameInstance ==
    /\ Cardinality(instances) <= 1
    /\ \A t \in Threads : held[t] # Null => held[t] = _instance
    /\ \A t \in Threads :
          (pc[t] \in InitLines \cup {"l33"}) => ~_initialized[self[t]]

C3_ReadyKept ==
    \A o \in Objects :
        _initialized[o] => (_initialized'[o] /\ db'[o] = db[o] /\ _apps' = _apps)

\* C3: the two parts above, in every state and on every step.
C3_SingletonReadyTerminal == [](C3_SameInstance) /\ [][C3_ReadyKept]_vars

C3_Witness ==
    /\ \A t \in Threads : pc[t] = "idle" /\ outcome[t] = "returned"
    /\ \A t, u \in Threads : held[t] # Null /\ held[t] = held[u]
    /\ _initialized[_instance]

\* C4: a successful log_risk_event persists exactly one new document whose
\* fields are the caller's fields plus 'timestamp' and 'processed', with
\* processed false and timestamp the time observed during the call
\* (caller-supplied values of the two keys are overwritten), and returns
\* that document's identifier.
C4_Persisted(t) ==
    /\ retval[t] # Null
    /\ Cardinality({d \in risk_events : d.id = retval[t]}) = 1
    /\ \A d \in risk_events :
          d.id = retval[t] =>
            /\ DOMAIN d.fields = DOMAIN origEvent[t] \cup InjectedKeys
            /\ d.fields["processed"] = FALSE
            /\ callClock[t] <= d.fields["timestamp"]
            /\ d.fields["timestamp"] <= clock
            /\ \A k \in DOMAIN origEvent[t] \ InjectedKeys :
                  d.fields[k] = origEvent[t][k]

C4_Returned ==
    \A t \in Threads :
        (LogEnded(t) /\ attempts[t] = 1 /\ ~writeFailed[t]) => C4_Persisted(t)

C4_OneNewDocument ==
    risk_events' # risk_events =>
        \E t \in Threads :
            /\ pc[t] = "l70" /\ pc'[t] = "l71"
            /\ \A d \in risk_events : d.id # doc_ref[t]
            /\ risk_events' \ risk_events =
                  {[id |-> doc_ref[t], fields |-> payload[t]]}
            /\ risk_events \subseteq risk_events'

\* C4: the returned identifier names the stamped document, and a store
\* change is one new document added by one successful write.
C4_LogPersistsStampedDocument == [](C4_Returned) /\ [][C4_OneNewDocument]_vars

C4_Witness ==
    \E t, u \in Threads :
        /\ LogEnded(t) /\ retval[t] # Null /\ clock > callClock[t]
        /\ "timestamp" \in DOMAIN origEvent[t]
        /\ "type" \notin DOMAIN origEvent[t]
        /\ LogEnded(u) /\ retval[u] # Null /\ retval[u] # retval[t]
        /\ "type" \in DOMAIN origEvent[u]

\* C5: when setup raises during the initialization a construction
\* triggered, the exception reaches the caller of that construction: the
\* call yields no client and the failed attempt never marks the object
\* initialized.
C5_FailurePropagates ==
    \A t \in Threads :
        (pc[t] = "l52" /\ pc'[t] # "l52") =>
            /\ pc'[t] = "idle"
            /\ outcome'[t] = "raised"
            /\ held'[t] = held[t]
            /\ _initialized' = _initialized

C5_MarkedOnlyAfterSuccess ==
    /\ \A o \in Objects : _initialized[o] => db[o] # Null
    /\ \A t \in Threads : pc[t] = "l33" => db[self[t]] # Null

\* C5: an object is marked only after a successful setup, and leaving the
\* handler ends the construction with the exception.
C5_InitFailureReraised ==
    [](C5_MarkedOnlyAfterSuccess) /\ [][C5_FailurePropagates]_vars

C5_Witness ==
    \E t \in Threads :
        /\ op[t] = "construct" /\ pc[t] = "idle" /\ outcome[t] = "raised"
        /\ held[t] = Null
        /\ \A o \in Objects : ~_initialized[o]

\* C6: log_risk_event makes at most one write attempt per invocation, and a
\* failed attempt leaves no document created.
C6_NoRetryNoPartialWrite ==
    \A t \in Threads :
        /\ attempts[t] <= 1
        /\ (op[t] = "log" /\ writeFailed[t]) =>
              \A d \in risk_events : d.id # doc_ref[t]

C6_Witness ==
    \E t \in Threads :
        /\ LogEnded(t) /\ writeFailed[t] /\ attempts[t] = 1
        /\ \E u \in Threads : LogEnded(u) /\ ~writeFailed[u] /\ attempts[u] = 1

\* C7: ModelConfig built without an explicit ENSEMBLE_WEIGHTS holds exactly
\* isolation_forest 0.3, gradient_boosting 0.4, lstm 0.3; built with any
\* explicit mapping, an empty one included, it holds that mapping untouched.
C7_ThreeDefaults(w) ==
    /\ DOMAIN w = {"isolation_forest", "gradient_boosting", "lstm"}
    /\ w["isolation_forest"] = 3
    /\ w["gradient_boosting"] = 4
    /\ w["lstm"] = 3

C7_EnsembleWeightsDefaulting ==
    /\ cpc \in {"instantiate", "done"} =>
          C7_ThreeDefaults(config.MODELS.ENSEMBLE_WEIGHTS)
    /\ mcBuilt =>
          IF mcArg = NoneMapping
          THEN C7_ThreeDefaults(mcObj.ENSEMBLE_WEIGHTS)
          ELSE mcObj.ENSEMBLE_WEIGHTS = mcArg

C7_Witness == mcBuilt /\ mcArg = EmptyMapping

\* C8: each of the three configuration values is the environment's value
\* when the variable is set as it is resolved and the documented default
\* when it is unset, never None; each is resolved once, and later changes
\* of the environment do not change what a read returns.
C8_Expected(var) ==
    IF envAtResolve[var] = Unset
    THEN CASE var = "FIREBASE_CREDENTIALS_PATH" -> "./firebase-credentials.json"
           [] var = "FIREBASE_PROJECT_ID" -> "arm-ai-system"
           [] var = "LOG_LEVEL" -> "INFO"
    ELSE envAtResolve[var]

C8_Resolved ==
    /\ \A var \in EnvVars : getenvCalls[var] <= 1
    /\ cpc \in {"instantiate", "done"} =>
          /\ \A var \in EnvVars : getenvCalls[var] = 1
          /\ config.FIREBASE.CREDENTIALS_PATH = C8_Expected("FIREBASE_CREDENTIALS_PATH")
          /\ config.FIREBASE.PROJECT_ID = C8_Expected("FIREBASE_PROJECT_ID")
          /\ config.LOG_LEVEL = C8_Expected("LOG_LEVEL")
          /\ config.FIREBASE.CREDENTIALS_PATH # NoneVal
          /\ config.FIREBASE.PROJECT_ID # NoneVal
          /\ config.LOG_LEVEL # NoneVal

C8_Stable ==
    cpc \in {"instantiate", "done"} => config' = config

\* C8: the values are as resolved in every state, and no step changes them
\* once config.py has built them.
C8_EnvOrDefaultResolvedOnce == [](C8_Resolved) /\ [][C8_Stable]_vars

C8_Witness ==
    /\ cpc = "done"
    /\ envAtResolve["LOG_LEVEL"] = Unset /\ environ["LOG_LEVEL"] = "custom"
    /\ envAtResolve["FIREBASE_PROJECT_ID"] = "" /\ environ["FIREBASE_PROJECT_ID"] = Unset
    /\ envAtResolve["FIREBASE_CREDENTIALS_PATH"] = "fromfile"

\* C9: a failed construction leaves the instance registered and
\* uninitialized, the next construction runs _initialize_firebase again on
\* that same instance, and initialize_app is only ever invoked while no app
\* is registered.
C9_Retryable ==
    /\ initAppDup = FALSE
    /\ \A t \in Threads :
          pc[t] \in InitLines => (self[t] = _instance /\ ~_initialized[self[t]])

C9_FailureLeavesUninitialized ==
    \A t \in Threads :
        /\ (pc[t] = "l52" /\ pc'[t] = "idle") =>
              (_instance' = self[t] /\ _instance' # Null /\ ~_initialized'[_instance'])
        /\ (pc[t] = "l31" /\ pc'[t] # "l31" /\ ~_initialized[self[t]]) =>
              (pc'[t] = "l38" /\ self'[t] = self[t])

\* C9: the two parts above, in every state and on every step.
C9_FailedIsNotTerminal == [](C9_Retryable) /\ [][C9_FailureLeavesUninitialized]_vars

C9_Witness ==
    \E t, u \in Threads :
        /\ op[t] = "construct" /\ pc[t] = "idle" /\ outcome[t] = "raised"
        /\ _apps # {}
        /\ pc[u] = "idle" /\ outcome[u] = "returned" /\ held[u] = _instance
        /\ _initialized[held[u]]

\* C10: log_risk_event enriches the caller's own mapping in place: once the
\* stamping is done, and after the call whether or not the write failed,
\* the caller's mapping holds 'timestamp' and 'processed' = False and every
\* other key is unchanged.
C10_CallerMappingEnriched ==
    \A t \in Threads :
        (op[t] = "log" /\ pc[t] \in {"l70", "l71", "l73", "idle"}) =>
            /\ DOMAIN event_data[t] = DOMAIN origEvent[t] \cup InjectedKeys
            /\ event_data[t]["processed"] = FALSE
            /\ callClock[t] <= event_data[t]["timestamp"]
            /\ \A k \in DOMAIN origEvent[t] \ InjectedKeys :
                  event_data[t][k] = origEvent[t][k]

C10_Witness ==
    \E t \in Threads :
        /\ LogEnded(t) /\ writeFailed[t]
        /\ "type" \in DOMAIN origEvent[t]
        /\ "timestamp" \notin DOMAIN origEvent[t]

====
